---- MODULE Spec2Model ----
(***************************************************************************)
(* Stm32Driver (src/design/interfacing/stm32_driver.py): the serial        *)
(* protocol driver of the robot.  Caller threads issue outbound commands,  *)
(* register observers and close the driver; one background thread runs the *)
(* receive loop `run`, which decodes 6-byte inbound frames, updates the    *)
(* telemetry fields and notifies the observers.                            *)
(*                                                                         *)
(* Python values: an int is a TLA+ integer; an argument of a command is a  *)
(* record [ty, v] carrying its Python type; None is the empty sequence and *)
(* a present value v is <<v>>.  The serial line is a sequence of bytes.    *)
(***************************************************************************)
EXTENDS Integers, Sequences, FiniteSets, TLC

VARIABLES
    observers,            \* self.observers: list of registered observers
    port_open,            \* self.port.is_open
    is_running,           \* self.is_running: the termination flag, FALSE = stop
    is_ready,             \* self.is_ready
    signal_strength,      \* self.signal_strength: None or Some(v)
    antenna_information,  \* self.antenna_information: None or Some(record)
    pc,                   \* position of the background thread in run()
    response_type,        \* argument of the running notify_all_observers
    param,                \* data_list[1] of the frame being handled
    idx,                  \* position of the for loop of notify_all_observers
    delivered,            \* notify() calls of the running notify_all_observers
    rx,                   \* bytes waiting in the serial input buffer
    written,              \* every byte written to the serial port so far
    closePc,              \* position of the caller thread inside close()
    lastCall,             \* the last outbound command call and its outcome
    ncalls,               \* number of outbound command calls made
    nrecv,                \* number of frames the device has sent
    lastRead,             \* what became of the last read of the receive loop
    nbad,                 \* number of discarded reads so far (saturating)
    init_pc,              \* position of the constructing thread in __init__
    platform,             \* sys.platform
    ports,                \* detect_serial: candidates, TRUE where one opens
    port_i,               \* detect_serial: position of `for port in ports`
    result,               \* detect_serial: the candidates that opened
    s_open,               \* detect_serial: the probe handle s is open
    translation_strategy, \* movement_strategy.translation_strategy
    rotation_strategy,    \* movement_strategy.rotation_strategy
    equivalencies,        \* CommandDispatcher.equivalencies: step -> command
    queries,              \* get_relevant_command calls made, in order
    consumed,             \* CommandHandler._consumed, oldest packet first
    produced,             \* CommandHandler._produced, oldest packet first
    puts,                 \* arguments of the put_command calls, in order
    fetched,              \* results of the fetch_command calls, in order
    handed,               \* packets the selector put on _produced, in order
    wire,                 \* the six bytes of a frame handed to the validation
    flipped,              \* the bit of the frame that was flipped, 0 for none
    accepted              \* validate_checksum of the frame, None before the call

vars == <<observers, port_open, is_running, is_ready, signal_strength,
          antenna_information, pc, response_type, param, idx, delivered,
          rx, written, closePc, lastCall, ncalls, nrecv, lastRead, nbad,
          init_pc, platform, ports, port_i, result, s_open,
          translation_strategy, rotation_strategy, equivalencies, queries,
          consumed, produced, puts, fetched, handed, wire, flipped, accepted>>

driverVars == <<is_ready, signal_strength, antenna_information>>
threadVars == <<pc, response_type, param, idx, delivered>>
callVars   == <<written, lastCall, ncalls>>
initVars   == <<init_pc, platform, ports, port_i, result, s_open>>
dispatcherVars ==
    <<translation_strategy, rotation_strategy, equivalencies, queries>>
handlerVars == <<consumed, produced, puts, fetched, handed>>
\* what no method of a constructed Stm32Driver touches
checksumVars == <<wire, flipped, accepted>>
otherVars  == <<initVars, dispatcherVars, handlerVars, checksumVars>>
\* the fields of a Stm32Driver, its thread, its port and its callers
stm32Vars  == <<observers, port_open, is_running, driverVars, threadVars, rx,
                callVars, closePc, nrecv, lastRead, nbad>>

-----------------------------------------------------------------------------
(* Bounds of the model *)

MaxObservers == 2     \* registrations made
MaxFrames == 2        \* inbound frames the device sends
MaxCalls == 2         \* outbound command calls made
MaxPending == 1       \* the device sends while fewer than this many frames wait
MaxBad == 2           \* the count of discarded reads saturates here
MaxParam == 127       \* SIGNAL_DATA parameters 0..MaxParam are decoded
MaxQueries == 2       \* get_relevant_command calls made
MaxPorts == 4         \* candidate ports that detect_serial enumerates
QueueSize == 2        \* maxsize of the two queues of the CommandHandler
MaxPackets == 3       \* put_command calls, fetch_command calls, packets received

-----------------------------------------------------------------------------
(* Program constants *)

TRANSLATE == 0
ROTATE == 1
FLASH_GREEN_LED == 2
ENABLE_RED_LED == 3
ENABLE_ADC == 4
DECODE_MANCHESTER == 5
STOP == 6
RESET == 7

STM_READY == 8
SIGNAL_STRENGTH == 9
SIGNAL_DATA == 10

EMPTY_PARAM == 0
Constants_ENABLED == 65535
Constants_DISABLED == 0
MASK_FIGURE == 112
MASK_ORIENTATION == 12
MASK_ZOOM == 2

response_size == 6

\* 2 ** 16: the modulus of the checksum and the range of a struct "H" field
Modulus == 65536

\* floor(2 * math.pi * 10000): angles are modelled on a grid of 1e-4 rad
TwoPiE4 == 62831

None == << >>
Some(v) == <<v>>

-----------------------------------------------------------------------------
(* struct.pack / struct.unpack with the formats "<HHHH" and "<HHH" *)

U16 == 0 .. (Modulus - 1)

\* "<H": one unsigned 16-bit field, little-endian
PackH(f) == <<f % 256, f \div 256>>

UnpackH(lo, hi) == lo + 256 * hi

\* struct.pack(self.command_format, command, param1, param2, checksum)
command_format(command, param1, param2, checksum) ==
    PackH(command) \o PackH(param1) \o PackH(param2) \o PackH(checksum)

\* struct.unpack(self.response_format, data_array): the three fields, or
\* None for struct.error (data_array is not exactly 6 bytes long)
response_format(data_array) ==
    IF Len(data_array) # response_size
    THEN None
    ELSE Some(<<UnpackH(data_array[1], data_array[2]),
                UnpackH(data_array[3], data_array[4]),
                UnpackH(data_array[5], data_array[6])>>)

\* the bytes of an inbound frame, as the device sends them
FrameBytes(f) == PackH(f[1]) \o PackH(f[2]) \o PackH(f[3])

\* Python's & on non-negative ints
RECURSIVE BitAnd(_, _)
BitAnd(a, b) ==
    IF a = 0 \/ b = 0 THEN 0
    ELSE (a % 2) * (b % 2) + 2 * BitAnd(a \div 2, b \div 2)

\* a checksum test that looks at the low byte of the sum only
validate_checksum_low_byte(data_list) ==
    (data_list[1] + data_list[2] + data_list[3]) % 256 = 0

\* a checksum test that ignores the carry into the top bit of the sum
validate_checksum_15_bits(data_list) ==
    (data_list[1] + data_list[2] + data_list[3]) % 32768 = 0

\* sum(data_list) % 65536 == 0
validate_checksum(data_list) ==
    (data_list[1] + data_list[2] + data_list[3]) % Modulus = 0

-----------------------------------------------------------------------------
(* validate_checksum on a frame and on the frame with one bit flipped *)

\* 2^k
RECURSIVE Pow2(_)
Pow2(k) == IF k = 0 THEN 1 ELSE 2 * Pow2(k - 1)

\* byte b with its bit k inverted
FlipByte(b, k) ==
    IF (b \div Pow2(k)) % 2 = 1 THEN b - Pow2(k) ELSE b + Pow2(k)

\* the frame with its i-th bit inverted, the bits counted from 1 in the
\* order of the bytes
FlipFrame(data_array, i) ==
    [data_array EXCEPT ![(i - 1) \div 8 + 1] = FlipByte(@, (i - 1) % 8)]

\* the frame f waits for validation, none of its bits flipped
Framed(f) ==
    /\ wire = FrameBytes(f)
    /\ flipped = 0
    /\ accepted = None

\* lines 151-152: the bytes are unpacked and validate_checksum is called
Validate ==
    /\ accepted = None
    /\ accepted' = Some(validate_checksum(response_format(wire)[1]))
    /\ UNCHANGED <<wire, flipped>>
    /\ UNCHANGED <<stm32Vars, initVars, dispatcherVars, handlerVars>>

\* one bit of an accepted frame is inverted on the line
FlipBit(i) ==
    /\ flipped = 0
    /\ accepted = Some(TRUE)
    /\ wire' = FlipFrame(wire, i)
    /\ flipped' = i
    /\ accepted' = None
    /\ UNCHANGED <<stm32Vars, initVars, dispatcherVars, handlerVars>>

-----------------------------------------------------------------------------
(* The antenna telemetry decoded by run() from data_list[1] *)

painting_number(p) == BitAnd(p, MASK_FIGURE)

\* the zoom bit masked first and 2 added to the result
zoom_mask_then_add(p) == BitAnd(p, MASK_ZOOM) + 2

\* data_list[1] & Constants.MASK_ZOOM + 2: + binds tighter than &
zoom(p) == BitAnd(p, MASK_ZOOM + 2)

\* the two orientation bits taken as a number of quarter turns
orientation_quarter_turns(p) ==
    (360 - (BitAnd(p, MASK_ORIENTATION) \div 4) * 90) % 360

orientation(p) == (360 - BitAnd(p, MASK_ORIENTATION) * 90) % 360

\* AntennaInformation(): a new object, none of its fields decoded yet
AntennaInformation ==
    [painting_number |-> None, zoom |-> None, orientation |-> None]

Decoded(p) ==
    [painting_number |-> Some(painting_number(p)),
     zoom |-> Some(zoom(p)),
     orientation |-> Some(orientation(p))]

-----------------------------------------------------------------------------
(* CommandDispatcher: the command of a step *)

\* TranslationStrategyType and RotationStrategyType
TRUST_MATERIAL_SERVOING == "TRUST_MATERIAL_SERVOING"
BASIC_WHEEL_SERVOING == "BASIC_WHEEL_SERVOING"
StrategyTypes == {TRUST_MATERIAL_SERVOING, BASIC_WHEEL_SERVOING}

steps_using_rotation ==
    {"ROTATE_BACK_AFTER_CAPTURE", "ROTATE_TO_FACE_PAINTING",
     "ROTATE_TO_STANDARD_HEADING"}

steps_using_translation_material_servo_management ==
    {"DRAWING", "MARKING_ANTENNA_POSITION", "TRAVEL_TO_DRAWING_ZONE",
     "TRAVEL_TO_PAINTINGS_AREA", "SEARCH_FOR_ANTENNA", "EXITING_DRAWING_ZONE"}

steps_using_rotation_material_servo_management ==
    {"ROTATE_TO_FACE_PAINTING", "ROTATE_BACK_AFTER_CAPTURE"}

\* the dict literal of __init__: each key with the class whose constructor
\* is called for it, in the order of the calls
EquivalenciesLiteral ==
    << <<"STANBY", "BuildGameMapCommand">>,
       <<"PREPARE_TRAVEL_TO_ANTENNA_ZONE", "PrepareTravelToAntennaAreaCommand">>,
       <<"TERMINATE_SEQUENCE", "FinishCycleCommand">>,
       <<"COMPUTE_PAINTINGS_AREA", "TravelToPaintingsAreaCommand">>,
       <<"PREPARE_SEARCH_FOR_ANTENNA",
         "PrepareSearchForAntennaPositionCommand">>,
       <<"SEARCH_FOR_ANTENNA", "SearchForAntennaPositionCommand">>,
       <<"PREPARE_MOVING_TO_ANTENNA_POSITION",
         "PrepareMovingToAntennaPositionCommand">>,
       <<"PREPARE_MARKING_ANTENNA_POSITION", "PrepareMarkingAntennaCommand">>,
       <<"ACQUIRE_INFORMATION_FROM_ANTENNA",
         "AcquireInformationFromAntennaCommand">>,
       <<"PREPARE_TRAVEL_TO_DRAWING_ZONE", "PrepareTravelToDrawingAreaCommand">>,
       <<"PREPARE_TO_DRAW", "PrepareToDrawCommand">>,
       <<"PREPARE_EXIT_OF_DRAWING_ZONE", "PrepareExitOfDrawingAreaCommand">>,
       <<"PREPARE_CAPTURE_OF_PAINTING", "FaceRelevantFigureForCaptureCommand">>,
       <<"CAPTURE_CORRECT_PAINTING", "CaptureFigureCommand">>,
       <<"REPOSITION_FOR_CAPTURE_RETRY", "RepositionForCaptureRetryCommand">>,
       <<"PREPARE_MOVING_TO_OFFSET", "PrepareMovingOfAntennaOffsetCommand">>,
       <<"PREPARE_ALIGN_WITH_CAPTURE", "PrepareAlignWithCaptureCommand">>,
       <<"PREPARE_REALIGN_WITH_FIRST_VERTEX_DRAWN",
         "PrepareRealignWithFirstVertexDrawnCommand">> >>

\* the keys of the dict
TableSteps == {EquivalenciesLiteral[i][1] : i \in DOMAIN EquivalenciesLiteral}

\* a command object: its class and the rank of its creation, which tells
\* one instance from another
CommandObject(cls, serial) == [cls |-> cls, serial |-> serial]

\* the dict after __init__: one instance per key
BuiltEquivalencies ==
    [s \in TableSteps |->
        LET i == CHOOSE k \in DOMAIN EquivalenciesLiteral :
                     EquivalenciesLiteral[k][1] = s
        IN  CommandObject(EquivalenciesLiteral[i][2], i)]

\* a Step that none of the lists of the dispatcher names
UNLISTED_STEP == "UNLISTED_STEP"

\* the values of Step that get_relevant_command is called with
Steps ==
    TableSteps \cup steps_using_rotation
        \cup steps_using_translation_material_servo_management
        \cup {UNLISTED_STEP}

\* the dispatcher after __init__; the modes of the movement strategy it was
\* given are whatever they were
DispatcherConstructed(ts, rs) ==
    /\ translation_strategy = ts
    /\ rotation_strategy = rs
    /\ equivalencies = BuiltEquivalencies
    /\ queries = << >>

\* lines 114-117
translation_strategy_for(current_step) ==
    IF current_step \in steps_using_translation_material_servo_management
    THEN TRUST_MATERIAL_SERVOING
    ELSE BASIC_WHEEL_SERVOING

\* material servoing of the rotation for every step of steps_using_rotation
rotation_strategy_for_rotation_steps(current_step) ==
    IF current_step \in steps_using_rotation
    THEN TRUST_MATERIAL_SERVOING
    ELSE BASIC_WHEEL_SERVOING

\* lines 119-122
rotation_strategy_for(current_step) ==
    IF current_step \in steps_using_rotation_material_servo_management
    THEN TRUST_MATERIAL_SERVOING
    ELSE BASIC_WHEEL_SERVOING

\* a lookup that builds a new command of the class of the entry
equivalencies_get_rebuilt(current_step) ==
    IF current_step \in DOMAIN equivalencies
    THEN Some(CommandObject(equivalencies[current_step].cls,
                            Len(EquivalenciesLiteral) + Len(queries) + 1))
    ELSE None

\* self.equivalencies.get(current_step): the value, or None
equivalencies_get(current_step) ==
    IF current_step \in DOMAIN equivalencies
    THEN Some(equivalencies[current_step])
    ELSE None

\* bool(command) of `if command:`: None is false; a command object is true,
\* its class defining neither __bool__ nor __len__
Truthy(command) == command # None

\* the factory is chosen by the material servoing list of the rotations
factory_for_material_servo(current_step) ==
    IF current_step \in steps_using_rotation_material_servo_management
    THEN "get_rotation_command"
    ELSE "get_translation_command"

\* lines 127-132: the factory of a step that has no command in the dict
factory_for(current_step) ==
    IF current_step \in steps_using_rotation
    THEN "get_rotation_command"
    ELSE "get_translation_command"

\* movement_strategy.get_rotation_command / get_translation_command: the
\* command the factory returns for the step
FactoryCommand(factory, serial) == CommandObject(factory, serial)

\* get_relevant_command(current_step): both modes are assigned first; the
\* call is recorded with its step, the factory it invoked, the modes as they
\* were when the command was obtained, and the command it returned
get_relevant_command(current_step) ==
    /\ Len(queries) < MaxQueries
    /\ translation_strategy' = translation_strategy_for(current_step)
    /\ rotation_strategy' = rotation_strategy_for(current_step)
    /\ LET command == equivalencies_get(current_step)
           seen == <<translation_strategy', rotation_strategy'>>
       IN  IF Truthy(command)
           THEN queries' = Append(queries,
                    [step |-> current_step, factory |-> "none",
                     seen |-> seen, command |-> command[1]])
           ELSE queries' = Append(queries,
                    [step |-> current_step,
                     factory |-> factory_for(current_step),
                     seen |-> seen,
                     command |-> FactoryCommand(factory_for(current_step),
                         Len(EquivalenciesLiteral) + Len(queries) + 1)])
    /\ UNCHANGED <<equivalencies, stm32Vars, initVars, handlerVars,
                   checksumVars>>

-----------------------------------------------------------------------------
(* CommandHandler: the two queues between the AI and the selector thread *)

\* the packets that travel
Packets == {"p1", "p2"}

\* the handler after __init__, both queues as they were handed in
HandlerConstructed ==
    /\ consumed = << >>
    /\ produced = << >>
    /\ puts = << >>
    /\ fetched = << >>
    /\ handed = << >>

\* put_nowait: queue.Full when the queue holds maxsize items
put_nowait(q, packet) ==
    IF Len(q) >= QueueSize THEN None ELSE Some(Append(q, packet))

\* a get that takes the newest item
get_nowait_newest(q) ==
    IF q = << >> THEN None
    ELSE Some(<<q[Len(q)], SubSeq(q, 1, Len(q) - 1)>>)

\* get_nowait: queue.Empty when the queue holds nothing; else the oldest
\* item and the rest of the queue
get_nowait(q) ==
    IF q = << >> THEN None ELSE Some(<<Head(q), Tail(q)>>)

\* lines 37-46
put_command(packet) ==
    /\ Len(puts) < MaxPackets
    /\ puts' = Append(puts, packet)
    /\ LET r == put_nowait(consumed, packet)
       IN  consumed' = IF r = None THEN consumed ELSE r[1]
    /\ UNCHANGED <<produced, fetched, handed>>
    /\ UNCHANGED <<stm32Vars, initVars, dispatcherVars, checksumVars>>

\* lines 48-61
fetch_command ==
    /\ Len(fetched) < MaxPackets
    /\ LET r == get_nowait(produced)
       IN  IF r = None
           THEN /\ fetched' = Append(fetched, None)
                /\ UNCHANGED produced
           ELSE /\ fetched' = Append(fetched, Some(r[1][1]))
                /\ produced' = r[1][2]
    /\ UNCHANGED <<consumed, puts, handed>>
    /\ UNCHANGED <<stm32Vars, initVars, dispatcherVars, checksumVars>>

\* the selector thread sends the oldest packet of _consumed
SelectorSend ==
    /\ consumed # << >>
    /\ consumed' = Tail(consumed)
    /\ UNCHANGED <<produced, puts, fetched, handed>>
    /\ UNCHANGED <<stm32Vars, initVars, dispatcherVars, checksumVars>>

\* the selector thread puts a packet it received on _produced
SelectorReceive(packet) ==
    /\ Len(handed) < MaxPackets
    /\ Len(produced) < QueueSize
    /\ produced' = Append(produced, packet)
    /\ handed' = Append(handed, packet)
    /\ UNCHANGED <<consumed, puts, fetched>>
    /\ UNCHANGED <<stm32Vars, initVars, dispatcherVars, checksumVars>>

\* the components around a driver at rest
Elsewhere ==
    /\ DispatcherConstructed(BASIC_WHEEL_SERVOING, BASIC_WHEEL_SERVOING)
    /\ HandlerConstructed
    /\ Framed(<<STM_READY, EMPTY_PARAM, Modulus - STM_READY>>)

-----------------------------------------------------------------------------
(* Construction *)

NoCall == [op |-> "none", args |-> << >>, res |-> "none", open |-> TRUE]

\* the driver after __init__, with `buffer` waiting in the port's input
\* buffer, the bytes of the n frames the device has sent since the port opened
Constructed(buffer, n) ==
    /\ observers = << >>
    /\ port_open = TRUE
    /\ is_running = TRUE
    /\ is_ready = FALSE
    /\ signal_strength = None
    /\ antenna_information = None
    /\ pc = "loop"
    /\ response_type = None
    /\ param = None
    /\ idx = 0
    /\ delivered = << >>
    /\ rx = buffer
    /\ written = << >>
    /\ closePc = "idle"
    /\ lastCall = NoCall
    /\ ncalls = 0
    /\ nrecv = n
    /\ lastRead = "none"
    /\ nbad = 0
    /\ init_pc = "done"
    /\ platform = "linux"
    /\ ports = <<TRUE>>
    /\ port_i = 2
    /\ result = <<1>>
    /\ s_open = FALSE

Init == Constructed(<< >>, 0) /\ Elsewhere

-----------------------------------------------------------------------------
(* Stm32Driver.__init__ and detect_serial, statement by statement *)

\* sys.platform: the last one is none that detect_serial knows
Platforms == {"win32", "linux", "cygwin", "darwin", "sunos5"}

Supported(p) == p \in {"win32", "linux", "cygwin", "darwin"}

RECURSIVE BoolSeqs(_)
BoolSeqs(n) ==
    IF n = 0 THEN {<< >>}
    ELSE LET shorter == BoolSeqs(n - 1)
         IN  shorter \cup {Append(q, b) : q \in shorter, b \in BOOLEAN}

\* the candidate ports of the machine, each one opening or not
Machines == BoolSeqs(MaxPorts)

\* __init__ has run up to line 48: the port object is not open, the thread
\* object is not started, and detect_serial is about to be called
Constructing(p, candidates) ==
    /\ observers = << >>
    /\ port_open = FALSE
    /\ is_running = FALSE
    /\ is_ready = FALSE
    /\ signal_strength = None
    /\ antenna_information = None
    /\ pc = "unstarted"
    /\ response_type = None
    /\ param = None
    /\ idx = 0
    /\ delivered = << >>
    /\ rx = << >>
    /\ written = << >>
    /\ closePc = "idle"
    /\ lastCall = NoCall
    /\ ncalls = 0
    /\ nrecv = 0
    /\ lastRead = "none"
    /\ nbad = 0
    /\ init_pc = "detect_serial"
    /\ platform = p
    /\ ports = candidates
    /\ port_i = 1
    /\ result = << >>
    /\ s_open = FALSE

\* lines 189-197: the candidates of the platform, or EnvironmentError
DetectPlatform ==
    /\ init_pc = "detect_serial"
    /\ init_pc' = IF Supported(platform) THEN "probe" ELSE "EnvironmentError"
    /\ UNCHANGED <<platform, ports, port_i, result, s_open>>
    /\ UNCHANGED <<stm32Vars, dispatcherVars, handlerVars, checksumVars>>

\* line 202: s = serial.Serial(port) opens the candidate, or raises and the
\* except clause of lines 205-206 goes on to the next candidate
ProbeOpen ==
    /\ init_pc = "probe"
    /\ port_i <= Len(ports)
    /\ IF ports[port_i]
       THEN /\ s_open' = TRUE
            /\ init_pc' = "s_close"
            /\ UNCHANGED port_i
       ELSE /\ port_i' = port_i + 1
            /\ UNCHANGED <<init_pc, s_open>>
    /\ UNCHANGED <<platform, ports, result>>
    /\ UNCHANGED <<stm32Vars, dispatcherVars, handlerVars, checksumVars>>

\* lines 203-204: s.close() and result.append(port)
ProbeClose ==
    /\ init_pc = "s_close"
    /\ s_open' = FALSE
    /\ result' = Append(result, port_i)
    /\ port_i' = port_i + 1
    /\ init_pc' = "probe"
    /\ UNCHANGED <<platform, ports>>
    /\ UNCHANGED <<stm32Vars, dispatcherVars, handlerVars, checksumVars>>

\* a constructor that falls back on a default device when none was found
FinishInitDefaultPort ==
    /\ init_pc = "probe"
    /\ port_i > Len(ports)
    /\ port_open' = TRUE
    /\ is_running' = TRUE
    /\ pc' = "loop"
    /\ init_pc' = "done"
    /\ UNCHANGED <<observers, driverVars, response_type, param, idx,
                   delivered, rx, callVars, closePc, nrecv, lastRead, nbad>>
    /\ UNCHANGED <<platform, ports, port_i, result, s_open>>
    /\ UNCHANGED <<dispatcherVars, handlerVars, checksumVars>>

\* detect_serial returns; lines 49-56: [0] of an empty list raises
\* IndexError, else the first port found is opened, the fields are set and
\* the thread is started
FinishInit ==
    /\ init_pc = "probe"
    /\ port_i > Len(ports)
    /\ IF result = << >>
       THEN /\ init_pc' = "IndexError"
            /\ UNCHANGED <<port_open, is_running, pc>>
       ELSE /\ port_open' = TRUE
            /\ is_running' = TRUE
            /\ pc' = "loop"
            /\ init_pc' = "done"
    /\ UNCHANGED <<observers, driverVars, response_type, param, idx,
                   delivered, rx, callVars, closePc, nrecv, lastRead, nbad>>
    /\ UNCHANGED <<platform, ports, port_i, result, s_open>>
    /\ UNCHANGED <<dispatcherVars, handlerVars, checksumVars>>

InitConstruct ==
    /\ \E p \in Platforms, candidates \in Machines :
          Constructing(p, candidates)
    /\ Elsewhere

NextConstruct ==
    \/ DetectPlatform
    \/ ProbeOpen
    \/ ProbeClose
    \/ FinishInit

SpecConstruct == InitConstruct /\ [][NextConstruct]_vars

-----------------------------------------------------------------------------
(* Observer registry *)

\* the observers that callers may register
Observers == {"o1", "o2"}

\* what an observer's notify(response_type) may do: return, raise, or call
\* close() on the driver from inside the callback
Behaviours == {"returns", "raises", "closes"}

register_hardware_observer(observer) ==
    /\ Len(observers) < MaxObservers
    /\ observers' = Append(observers, observer)
    /\ UNCHANGED <<port_open, is_running, driverVars, threadVars, rx,
                   callVars, closePc, nrecv, lastRead, nbad>>
    /\ UNCHANGED otherVars

\* notify_all_observers(response_type) is entered: the for loop starts
StartNotify(event) ==
    /\ response_type' = Some(event)
    /\ idx' = 1
    /\ delivered' = << >>
    /\ pc' = "notify"

\* a loop that notifies each observer once, however often it is registered
notify_each_observer_once ==
    /\ pc = "notify"
    /\ IF idx > Len(observers)
       THEN /\ pc' = "loop"
            /\ response_type' = None
            /\ param' = None
            /\ idx' = 0
            /\ delivered' = << >>
       ELSE /\ idx' = idx + 1
            /\ delivered' =
                 IF \E i \in 1..Len(delivered) :
                        delivered[i].observer = observers[idx]
                 THEN delivered
                 ELSE Append(delivered, [observer |-> observers[idx],
                                         event |-> response_type[1]])
            /\ UNCHANGED <<pc, response_type, param>>
    /\ UNCHANGED <<observers, port_open, is_running, driverVars, rx,
                   callVars, closePc, nrecv, lastRead, nbad>>
    /\ UNCHANGED otherVars

\* a loop that goes on to the remaining observers after one of them raised
\* and lets the exception leave run() at its end
notify_all_then_raise ==
    /\ pc = "notify"
    /\ IF idx > Len(observers)
       THEN /\ pc' = "loop"
            /\ response_type' = None
            /\ param' = None
            /\ idx' = 0
            /\ delivered' = << >>
            /\ UNCHANGED is_running
       ELSE \E b \in Behaviours :
            /\ UNCHANGED <<response_type, param, is_running>>
            /\ IF b = "returns"
               THEN /\ delivered' = Append(delivered,
                          [observer |-> observers[idx],
                           event |-> response_type[1]])
                    /\ idx' = idx + 1
                    /\ UNCHANGED pc
               ELSE /\ delivered' = delivered \o
                          [i \in 1..(Len(observers) - idx + 1) |->
                              [observer |-> observers[idx + i - 1],
                               event |-> response_type[1]]]
                    /\ pc' = "crashed"
                    /\ UNCHANGED idx
    /\ UNCHANGED <<observers, port_open, driverVars, rx, callVars, closePc,
                   nrecv, lastRead, nbad>>
    /\ UNCHANGED otherVars

\* one iteration of `for observer in self.observers`: the list iterator
\* compares its index with the current length of the list, so an observer
\* appended while the loop runs is reached too
notify_all_observers ==
    /\ pc = "notify"
    /\ IF idx > Len(observers)
       THEN /\ pc' = "loop"
            /\ response_type' = None
            /\ param' = None
            /\ idx' = 0
            /\ delivered' = << >>
            /\ UNCHANGED is_running
       ELSE \E b \in Behaviours :
            /\ delivered' = Append(delivered,
                   [observer |-> observers[idx], event |-> response_type[1]])
            /\ UNCHANGED <<response_type, param>>
            /\ CASE b = "returns" ->
                      /\ idx' = idx + 1
                      /\ UNCHANGED <<pc, is_running>>
                 [] b = "raises" ->
                      \* the exception leaves run(): only struct.error is caught
                      /\ pc' = "crashed"
                      /\ UNCHANGED <<idx, is_running>>
                 [] b = "closes" ->
                      \* close() on the background thread: the flag is cleared
                      \* and join() of the current thread raises RuntimeError
                      /\ is_running' = FALSE
                      /\ pc' = "crashed"
                      /\ UNCHANGED idx
    /\ UNCHANGED <<observers, port_open, driverVars, rx, callVars, closePc,
                   nrecv, lastRead, nbad>>
    /\ UNCHANGED otherVars

-----------------------------------------------------------------------------
(* The receive loop: Stm32Driver.run *)

\* the lengths port.read(self.response_size) may return: the full frame, or
\* fewer bytes (the read the except clause of run() is written for)
ReadSizes == {0, 3, response_size}

Min(a, b) == IF a < b THEN a ELSE b

\* a discarded read whose exception leaves run()
DiscardRaises(why) ==
    /\ lastRead' = why
    /\ nbad' = Min(nbad + 1, MaxBad)
    /\ pc' = "crashed"
    /\ UNCHANGED <<driverVars, response_type, param, idx, delivered>>

\* nothing but a log line: the read is dropped and the loop goes on
Discard(why) ==
    /\ lastRead' = why
    /\ nbad' = Min(nbad + 1, MaxBad)
    /\ UNCHANGED <<driverVars, threadVars>>

\* STM_READY handled like the two telemetry responses, with a notification
OnStmReadyNotifies ==
    /\ is_ready' = TRUE
    /\ lastRead' = "STM_READY"
    /\ StartNotify(STM_READY)
    /\ UNCHANGED <<signal_strength, antenna_information, param, nbad>>

OnStmReady ==
    /\ is_ready' = TRUE
    /\ lastRead' = "STM_READY"
    /\ UNCHANGED <<signal_strength, antenna_information, threadVars, nbad>>

OnSignalStrength(data_list) ==
    /\ signal_strength' = Some(data_list[2])
    /\ param' = Some(data_list[2])
    /\ StartNotify(SIGNAL_STRENGTH)
    /\ lastRead' = "SIGNAL_STRENGTH"
    /\ UNCHANGED <<is_ready, antenna_information, nbad>>

\* line 163: the new AntennaInformation is stored before its fields are set
OnSignalData(data_list) ==
    /\ antenna_information' = Some(AntennaInformation)
    /\ param' = Some(data_list[2])
    /\ pc' = "set_painting_number"
    /\ lastRead' = "SIGNAL_DATA"
    /\ UNCHANGED <<is_ready, signal_strength, response_type, idx, delivered,
                   nbad>>

\* the body of the try block of run() for the bytes just read
Handle(data_array) ==
    LET unpacked == response_format(data_array) IN
    IF unpacked = None
    THEN Discard("struct.error")
    ELSE LET data_list == unpacked[1] IN
         IF validate_checksum(data_list)
         THEN IF data_list[1] = STM_READY THEN OnStmReady
              ELSE IF data_list[1] = SIGNAL_STRENGTH
                   THEN OnSignalStrength(data_list)
              ELSE IF data_list[1] = SIGNAL_DATA THEN OnSignalData(data_list)
              ELSE Discard("Invalid opcode")
         ELSE Discard("Invalid Checksum")

\* one iteration of the while loop that finds a frame's worth of bytes
RunRead ==
    /\ pc = "loop"
    /\ is_running
    /\ Len(rx) >= response_size
    /\ \E n \in ReadSizes :
         /\ rx' = SubSeq(rx, n + 1, Len(rx))
         /\ Handle(SubSeq(rx, 1, n))
    /\ UNCHANGED <<observers, port_open, is_running, callVars, closePc, nrecv>>
    /\ UNCHANGED otherVars

SetField(obj, f, v) == Some([obj[1] EXCEPT ![f] = Some(v)])

\* line 164
RunSetPaintingNumber ==
    /\ pc = "set_painting_number"
    /\ antenna_information' = SetField(antenna_information, "painting_number",
                                       painting_number(param[1]))
    /\ pc' = "set_zoom"
    /\ UNCHANGED <<observers, port_open, is_running, is_ready, signal_strength,
                   response_type, param, idx, delivered, rx, callVars, closePc,
                   nrecv, lastRead, nbad>>
    /\ UNCHANGED otherVars

\* line 165
RunSetZoom ==
    /\ pc = "set_zoom"
    /\ antenna_information' = SetField(antenna_information, "zoom",
                                       zoom(param[1]))
    /\ pc' = "set_orientation"
    /\ UNCHANGED <<observers, port_open, is_running, is_ready, signal_strength,
                   response_type, param, idx, delivered, rx, callVars, closePc,
                   nrecv, lastRead, nbad>>
    /\ UNCHANGED otherVars

\* the observers are notified before the orientation is stored
RunNotifyBeforeOrientation ==
    /\ pc = "set_orientation"
    /\ StartNotify(SIGNAL_DATA)
    /\ UNCHANGED <<observers, port_open, is_running, driverVars, param, rx,
                   callVars, closePc, nrecv, lastRead, nbad>>
    /\ UNCHANGED otherVars

\* lines 166-167
RunSetOrientation ==
    /\ pc = "set_orientation"
    /\ antenna_information' = SetField(antenna_information, "orientation",
                                       orientation(param[1]))
    /\ StartNotify(SIGNAL_DATA)
    /\ UNCHANGED <<observers, port_open, is_running, is_ready, signal_strength,
                   param, rx, callVars, closePc, nrecv, lastRead, nbad>>
    /\ UNCHANGED otherVars

\* the while condition is false: the loop is left
RunExit ==
    /\ pc = "loop"
    /\ ~is_running
    /\ pc' = "port_close"
    /\ UNCHANGED <<observers, port_open, is_running, driverVars, response_type,
                   param, idx, delivered, rx, callVars, closePc, nrecv,
                   lastRead, nbad>>
    /\ UNCHANGED otherVars

\* line 174: self.port.close(), then run() returns
RunPortClose ==
    /\ pc = "port_close"
    /\ port_open' = FALSE
    /\ pc' = "finished"
    /\ UNCHANGED <<observers, is_running, driverVars, response_type, param,
                   idx, delivered, rx, callVars, closePc, nrecv, lastRead,
                   nbad>>
    /\ UNCHANGED otherVars

\* the background thread has ended: run() returned or an exception left it
ThreadEnded == pc \in {"finished", "crashed"}

-----------------------------------------------------------------------------
(* close(), called from a caller thread *)

\* line 177
close ==
    /\ closePc = "idle"
    /\ is_running' = FALSE
    /\ closePc' = "joining"
    /\ UNCHANGED <<observers, port_open, driverVars, threadVars, rx, callVars,
                   nrecv, lastRead, nbad>>
    /\ UNCHANGED otherVars

\* close() without the join: it returns at once
CloseWithoutJoin ==
    /\ closePc = "joining"
    /\ closePc' = "returned"
    /\ UNCHANGED <<observers, port_open, is_running, driverVars, threadVars,
                   rx, callVars, nrecv, lastRead, nbad>>
    /\ UNCHANGED otherVars

\* line 178: self.thread.join() returns once the thread has ended
CloseJoin ==
    /\ closePc = "joining"
    /\ ThreadEnded
    /\ closePc' = "returned"
    /\ UNCHANGED <<observers, port_open, is_running, driverVars, threadVars,
                   rx, callVars, nrecv, lastRead, nbad>>
    /\ UNCHANGED otherVars

-----------------------------------------------------------------------------
(* The microcontroller: sends 6-byte frames on the serial line *)


\* the checksum field that makes the three fields sum to 0 mod 65536
Checksum3(opcode, p) == (Modulus - ((opcode + p) % Modulus)) % Modulus

Valid(opcode, p) == <<opcode, p, Checksum3(opcode, p)>>

\* the same frame with one bit of its checksum field flipped
Corrupt(opcode, p) == <<opcode, p, (Checksum3(opcode, p) + 256) % Modulus>>

\* the frames the device sends: each response, an opcode that is no
\* response, and frames damaged on the line
InboundFrames ==
    {Valid(STM_READY, 0), Valid(RESET, 0),
     Valid(SIGNAL_STRENGTH, 0), Valid(SIGNAL_STRENGTH, 300),
     Valid(SIGNAL_DATA, 118), Valid(SIGNAL_DATA, 65535),
     Corrupt(SIGNAL_STRENGTH, 300), Corrupt(SIGNAL_DATA, 118)}

Deliver(f) ==
    /\ nrecv < MaxFrames
    /\ port_open
    /\ Len(rx) < MaxPending * response_size
    /\ rx' = rx \o FrameBytes(f)
    /\ nrecv' = nrecv + 1
    /\ UNCHANGED <<observers, port_open, is_running, driverVars, threadVars,
                   callVars, closePc, lastRead, nbad>>
    /\ UNCHANGED otherVars

-----------------------------------------------------------------------------
(* Outbound commands, called from caller threads *)

\* Python argument values with their type; a float angle is counted in 1e-4 rad
PyInt(v) == [ty |-> "int", v |-> v]
PyBool(b) == [ty |-> "bool", v |-> IF b THEN 1 ELSE 0]
PyFloat(e4) == [ty |-> "float", v |-> e4]
PyStr == [ty |-> "str", v |-> 0]

\* isinstance(a, int): bool is a subclass of int
isinstance_int(a) == a.ty \in {"int", "bool"}
isinstance_bool(a) == a.ty = "bool"
\* isinstance(a, (int, float))
isinstance_number(a) == a.ty \in {"int", "bool", "float"}

\* the angle of a numeric argument in 1e-4 rad
ThetaE4(theta) == IF theta.ty = "float" THEN theta.v ELSE theta.v * 10000

\* a call that ends in an exception before anything is written
Raise(op, args, error) ==
    /\ lastCall' = [op |-> op, args |-> args, res |-> error, open |-> port_open]
    /\ ncalls' = ncalls + 1
    /\ UNCHANGED written

\* send_command with param2 left out of the checksum
send_command_short_checksum(op, args, command, param1, param2) ==
    LET checksum == (65536 - command - param1) % 65536
        fields == <<command, param1, param2, checksum>>
    IN  IF \E i \in 1..4 : fields[i] \notin U16
        THEN Raise(op, args, "struct.error")
        ELSE IF ~port_open
        THEN Raise(op, args, "PortNotOpenError")
        ELSE /\ written' = written \o
                    command_format(command, param1, param2, checksum)
             /\ lastCall' = [op |-> op, args |-> args, res |-> "ok",
                             open |-> port_open]
             /\ ncalls' = ncalls + 1

\* send_command(command, param1, param2): struct.pack raises struct.error for
\* a field outside 0..65535; port.write raises on a port that is not open
send_command(op, args, command, param1, param2) ==
    LET checksum == (65536 - command - param1 - param2) % 65536
        fields == <<command, param1, param2, checksum>>
    IN  IF \E i \in 1..4 : fields[i] \notin U16
        THEN Raise(op, args, "struct.error")
        ELSE IF ~port_open
        THEN Raise(op, args, "PortNotOpenError")
        ELSE /\ written' = written \o
                    command_format(command, param1, param2, checksum)
             /\ lastCall' = [op |-> op, args |-> args, res |-> "ok",
                             open |-> port_open]
             /\ ncalls' = ncalls + 1

CallFrame ==
    /\ ncalls < MaxCalls
    /\ UNCHANGED <<observers, port_open, is_running, driverVars, threadVars,
                   rx, closePc, nrecv, lastRead, nbad>>
    /\ UNCHANGED otherVars

\* translate_robot with the upper bound of dy excluded
translate_robot_exclusive_bound(dx, dy) ==
    /\ CallFrame
    /\ IF /\ isinstance_int(dx)
          /\ -32768 <= dx.v /\ dx.v <= 32767
          /\ isinstance_int(dy)
          /\ -32768 < dy.v /\ dy.v <= 32767
       THEN send_command("translate_robot", <<dx, dy>>, TRANSLATE,
                         dx.v + 32768, dy.v + 32768)
       ELSE Raise("translate_robot", <<dx, dy>>, "AssertionError")

translate_robot(dx, dy) ==
    /\ CallFrame
    /\ IF /\ isinstance_int(dx)
          /\ -32768 <= dx.v /\ dx.v <= 32767
          /\ isinstance_int(dy)
          /\ -32768 <= dy.v /\ dy.v <= 32767
       THEN send_command("translate_robot", <<dx, dy>>, TRANSLATE,
                         dx.v + 32768, dy.v + 32768)
       ELSE Raise("translate_robot", <<dx, dy>>, "AssertionError")

\* int((theta + 2 * math.pi) * 100)
rotate_robot(theta) ==
    /\ CallFrame
    /\ IF /\ isinstance_number(theta)
          /\ -TwoPiE4 <= ThetaE4(theta) /\ ThetaE4(theta) <= TwoPiE4
       THEN send_command("rotate_robot", <<theta>>, ROTATE,
                         (ThetaE4(theta) + TwoPiE4) \div 100, EMPTY_PARAM)
       ELSE Raise("rotate_robot", <<theta>>, "AssertionError")

stop_robot ==
    /\ CallFrame
    /\ send_command("stop_robot", << >>, STOP, EMPTY_PARAM, EMPTY_PARAM)

reset_robot ==
    /\ CallFrame
    /\ send_command("reset_robot", << >>, RESET, EMPTY_PARAM, EMPTY_PARAM)

enable_red_led(is_enabled) ==
    /\ CallFrame
    /\ IF isinstance_bool(is_enabled)
       THEN send_command("enable_red_led", <<is_enabled>>, ENABLE_RED_LED,
                         IF is_enabled.v # 0 THEN Constants_ENABLED
                                             ELSE Constants_DISABLED,
                         EMPTY_PARAM)
       ELSE Raise("enable_red_led", <<is_enabled>>, "AssertionError")

\* flash_green_led with the upper bound one too high
flash_green_led_wide_bound(milliseconds) ==
    /\ CallFrame
    /\ IF /\ isinstance_int(milliseconds)
          /\ 0 <= milliseconds.v /\ milliseconds.v <= 65536
       THEN send_command("flash_green_led", <<milliseconds>>, FLASH_GREEN_LED,
                         milliseconds.v, EMPTY_PARAM)
       ELSE Raise("flash_green_led", <<milliseconds>>, "AssertionError")

flash_green_led(milliseconds) ==
    /\ CallFrame
    /\ IF /\ isinstance_int(milliseconds)
          /\ 0 <= milliseconds.v /\ milliseconds.v <= 65535
       THEN send_command("flash_green_led", <<milliseconds>>, FLASH_GREEN_LED,
                         milliseconds.v, EMPTY_PARAM)
       ELSE Raise("flash_green_led", <<milliseconds>>, "AssertionError")

enable_sampling(is_enabled) ==
    /\ CallFrame
    /\ IF isinstance_bool(is_enabled)
       THEN send_command("enable_sampling", <<is_enabled>>, ENABLE_ADC,
                         IF is_enabled.v # 0 THEN Constants_ENABLED
                                             ELSE Constants_DISABLED,
                         EMPTY_PARAM)
       ELSE Raise("enable_sampling", <<is_enabled>>, "AssertionError")

decode_manchester ==
    /\ CallFrame
    /\ send_command("decode_manchester", << >>, DECODE_MANCHESTER,
                    EMPTY_PARAM, EMPTY_PARAM)

\* the arguments callers pass: the edges of each range, and other types
DistanceArgs ==
    {PyInt(v) : v \in {-32769, -32768, 0, 32767, 32768}}
    \cup {PyBool(TRUE), PyFloat(0), PyStr}
AngleArgs ==
    {PyFloat(e4) : e4 \in {-62832, -62831, 0, 31415, 62831, 62832}}
    \cup {PyInt(v) : v \in {-7, -6, 0, 6, 7}}
    \cup {PyBool(TRUE), PyStr}
DurationArgs ==
    {PyInt(v) : v \in {-1, 0, 300, 65535, 65536}}
    \cup {PyBool(TRUE), PyFloat(0), PyStr}
FlagArgs == {PyBool(TRUE), PyBool(FALSE), PyInt(0), PyInt(1), PyStr}

Command(D, A, M, F) ==
    \/ \E dx \in D, dy \in D : translate_robot(dx, dy)
    \/ \E theta \in A : rotate_robot(theta)
    \/ stop_robot
    \/ reset_robot
    \/ \E is_enabled \in F : enable_red_led(is_enabled)
    \/ \E milliseconds \in M : flash_green_led(milliseconds)
    \/ \E is_enabled \in F : enable_sampling(is_enabled)
    \/ decode_manchester

\* The command side of the driver: callers issue commands and close the
\* driver while the device stays silent
NextCmd ==
    \/ Command(DistanceArgs, AngleArgs, DurationArgs, FlagArgs)
    \/ close
    \/ CloseJoin
    \/ RunExit
    \/ RunPortClose

SpecCmd == Init /\ [][NextCmd]_vars

-----------------------------------------------------------------------------
(* The receive side of the driver *)

Thread ==
    \/ RunRead
    \/ RunSetPaintingNumber
    \/ RunSetZoom
    \/ RunSetOrientation
    \/ notify_all_observers
    \/ RunExit
    \/ RunPortClose

Next ==
    \/ Thread
    \/ \E o \in Observers : register_hardware_observer(o)
    \/ \E f \in InboundFrames : Deliver(f)
    \/ close
    \/ CloseJoin

Spec == Init /\ [][Next]_vars

-----------------------------------------------------------------------------
(* Decoding: one valid SIGNAL_DATA frame waits in the input buffer *)

\* the 16-bit parameters decoded: every pattern of bits 0..6, and two
\* values with the high bits set
DecodeParams == (0..MaxParam) \cup {32886, 65535}

InitDecode ==
    /\ \E p \in DecodeParams :
          Constructed(FrameBytes(Valid(SIGNAL_DATA, p)), 1)
    /\ Elsewhere

NextDecode ==
    \/ RunRead
    \/ RunSetPaintingNumber
    \/ RunSetZoom
    \/ RunSetOrientation
    \/ notify_all_observers

SpecDecode == InitDecode /\ [][NextDecode]_vars

-----------------------------------------------------------------------------
(* The dispatcher is queried step after step *)

InitDispatch ==
    /\ Constructed(<< >>, 0)
    /\ HandlerConstructed
    /\ Framed(<<STM_READY, EMPTY_PARAM, Modulus - STM_READY>>)
    /\ \E ts \in StrategyTypes, rs \in StrategyTypes :
          DispatcherConstructed(ts, rs)

NextDispatch == \E current_step \in Steps : get_relevant_command(current_step)

SpecDispatch == InitDispatch /\ [][NextDispatch]_vars

-----------------------------------------------------------------------------
(* The AI and the selector thread use the queues of the CommandHandler *)

NextHandler ==
    \/ \E packet \in Packets : put_command(packet)
    \/ fetch_command
    \/ SelectorSend
    \/ \E packet \in Packets : SelectorReceive(packet)

SpecHandler == Init /\ [][NextHandler]_vars

-----------------------------------------------------------------------------
(* Frames whose fields sum to 0 modulo 65536 are validated, whole and with
   one bit flipped *)

ChecksumOpcodes == {TRANSLATE, STM_READY, SIGNAL_STRENGTH, SIGNAL_DATA, 65535}
ChecksumParams == {0, 1, 118, 300, 32768, 65535}

InitChecksum ==
    /\ Constructed(<< >>, 0)
    /\ DispatcherConstructed(BASIC_WHEEL_SERVOING, BASIC_WHEEL_SERVOING)
    /\ HandlerConstructed
    /\ \E opcode \in ChecksumOpcodes, p \in ChecksumParams :
          Framed(Valid(opcode, p))

NextChecksum ==
    \/ Validate
    \/ \E i \in 1..(8 * response_size) : FlipBit(i)

SpecChecksum == InitChecksum /\ [][NextChecksum]_vars

-----------------------------------------------------------------------------
(* Shutdown: the driver is closed while frames arrive and observers run *)

\* the frames of the shutdown scenarios
StopFrames == {Valid(SIGNAL_DATA, 118)}

NextStop ==
    \/ Thread
    \/ \E o \in Observers : register_hardware_observer(o)
    \/ \E f \in StopFrames : Deliver(f)
    \/ close
    \/ CloseJoin

\* the scheduler lets the background thread run, and join() returns once
\* the thread has ended
FairSpec == Init /\ [][NextStop]_vars /\ WF_vars(Thread) /\ WF_vars(CloseJoin)

\* the arguments of the commands issued around a shutdown
StopDistances == {PyInt(0), PyInt(32768)}
StopAngles == {PyFloat(0), PyFloat(62832)}
StopDurations == {PyInt(300), PyInt(65536)}
StopFlags == {PyBool(TRUE), PyInt(1)}

NextLife ==
    \/ NextStop
    \/ Command(StopDistances, StopAngles, StopDurations, StopFlags)

SpecLife == Init /\ [][NextLife]_vars

-----------------------------------------------------------------------------
(* Properties of the receive loop, checked under Spec *)

\* the three 16-bit fields at the head of the input buffer
HeadFields ==
    <<rx[1] + 256 * rx[2], rx[3] + 256 * rx[4], rx[5] + 256 * rx[6]>>

HeadSum == (HeadFields[1] + HeadFields[2] + HeadFields[3]) % 65536

\* this step is the receive loop reading a whole frame (only it shortens rx)
FrameRead == pc = "loop" /\ Len(rx) >= 6 /\ Len(rx') = Len(rx) - 6

\* the thread is between the decoding of a frame and the end of its handling
Handling ==
    pc \in {"set_painting_number", "set_zoom", "set_orientation", "notify"}

\* C1: a frame whose three fields do not sum to 0 mod 65536 leaves is_ready,
\* signal_strength and antenna_information unchanged and notifies nobody; the
\* fields change and observers are notified only in the handling of a frame
\* whose fields sum to 0 mod 65536.
C1_InvalidFrameDiscarded ==
    [][ /\ (FrameRead /\ HeadSum # 0) =>
             /\ is_ready' = is_ready
             /\ signal_strength' = signal_strength
             /\ antenna_information' = antenna_information
             /\ delivered' = delivered
             /\ pc' = "loop"
        /\ (\/ is_ready' # is_ready
            \/ signal_strength' # signal_strength
            \/ antenna_information' # antenna_information
            \/ Len(delivered') > Len(delivered)
            \/ (pc = "loop" /\ pc' \in {"set_painting_number", "notify"}))
           => \/ FrameRead /\ HeadSum = 0
              \/ Handling
      ]_vars

\* a damaged frame has been read and dropped while telemetry was held
C1_Witness ==
    /\ lastRead = "Invalid Checksum"
    /\ signal_strength = <<300>>
    /\ pc = "loop"

\* this step reads a whole frame whose fields sum to 0 mod 65536
ValidRead == FrameRead /\ HeadSum = 0

\* this step is a read of the receive loop that is discarded
BadRead ==
    /\ pc = "loop"
    /\ lastRead' \in {"struct.error", "Invalid Checksum", "Invalid opcode"}
    /\ lastRead' # lastRead \/ nbad' # nbad \/ Len(rx') < Len(rx)

\* C7: a short read, a frame with a bad checksum or an unknown opcode never
\* ends the background thread: the thread leaves the head of its loop only
\* because the termination flag is cleared or to handle a valid
\* SIGNAL_STRENGTH or SIGNAL_DATA frame, and a valid frame is acted upon
\* after any number of discarded reads.
C7_LoopSurvivesBadFrames ==
    [][ /\ (pc = "loop" /\ pc' # "loop") =>
             \/ ~is_running /\ pc' = "port_close"
             \/ ValidRead /\ HeadFields[1] \in {9, 10}
        /\ BadRead =>
             /\ pc' = "loop"
             /\ port_open' = port_open
             /\ is_running' = is_running
        /\ (ValidRead /\ HeadFields[1] = 8) => is_ready' /\ pc' = "loop"
        /\ (ValidRead /\ HeadFields[1] = 9) =>
             signal_strength' = <<HeadFields[2]>> /\ pc' = "notify"
        /\ (ValidRead /\ HeadFields[1] = 10) =>
             antenna_information' # << >> /\ pc' = "set_painting_number"
      ]_vars

\* a valid frame is being handled after two reads were discarded
C7_Witness ==
    /\ nbad >= 2
    /\ lastRead = "SIGNAL_STRENGTH"
    /\ signal_strength = <<300>>
    /\ pc = "notify"
    /\ is_running

\* C8: whenever notify may be invoked for a frame, the field the event is
\* about already holds the value of that frame: signal_strength is the
\* frame's parameter, antenna_information the three values decoded from it.
C8_UpdateBeforeNotify ==
    pc = "notify" =>
        /\ response_type = <<9>> => signal_strength = param
        /\ response_type = <<10>> =>
             antenna_information =
                 <<[painting_number |-> <<painting_number(param[1])>>,
                    zoom |-> <<zoom(param[1])>>,
                    orientation |-> <<orientation(param[1])>>]>>

\* an observer has been notified of a SIGNAL_DATA frame, the next is due
C8_Witness ==
    /\ pc = "notify"
    /\ response_type = <<10>>
    /\ param = <<118>>
    /\ Len(delivered) = 1
    /\ idx = 2
    /\ Len(observers) = 2

\* C9: the effect of a valid frame depends on its opcode only.  STM_READY
\* sets is_ready and nothing else and notifies nobody; SIGNAL_STRENGTH stores
\* the parameter, changes nothing else and notifies with SIGNAL_STRENGTH;
\* SIGNAL_DATA replaces antenna_information, changes nothing else and
\* notifies with SIGNAL_DATA; any other opcode changes nothing and notifies
\* nobody.  Observers receive the events SIGNAL_STRENGTH and SIGNAL_DATA only.
C9_EffectByOpcode ==
    [][ /\ (ValidRead /\ HeadFields[1] = 8) =>
             /\ is_ready'
             /\ signal_strength' = signal_strength
             /\ antenna_information' = antenna_information
             /\ pc' = "loop" /\ response_type' = << >>
        /\ (ValidRead /\ HeadFields[1] = 9) =>
             /\ signal_strength' = <<HeadFields[2]>>
             /\ is_ready' = is_ready
             /\ antenna_information' = antenna_information
             /\ pc' = "notify" /\ response_type' = <<9>>
        /\ (ValidRead /\ HeadFields[1] = 10) =>
             /\ antenna_information' # antenna_information
             /\ antenna_information' # << >>
             /\ is_ready' = is_ready
             /\ signal_strength' = signal_strength
             /\ pc' = "set_painting_number" /\ param' = <<HeadFields[2]>>
        /\ (ValidRead /\ HeadFields[1] \notin {8, 9, 10}) =>
             /\ is_ready' = is_ready
             /\ signal_strength' = signal_strength
             /\ antenna_information' = antenna_information
             /\ pc' = "loop" /\ response_type' = << >>
        /\ pc \in {"set_painting_number", "set_zoom", "set_orientation"} =>
             /\ is_ready' = is_ready
             /\ signal_strength' = signal_strength
             /\ \/ pc' \in {"set_painting_number", "set_zoom",
                            "set_orientation"}
                \/ pc' = "notify" /\ response_type' = <<10>>
        /\ \A i \in 1..Len(delivered') :
             /\ delivered'[i].event \in {9, 10}
             /\ <<delivered'[i].event>> = response_type'
      ]_vars

\* a SIGNAL_DATA frame is handled after a SIGNAL_STRENGTH frame, and an
\* observer has been notified of it
C9_Witness ==
    /\ signal_strength = <<300>>
    /\ lastRead = "SIGNAL_DATA"
    /\ antenna_information # << >>
    /\ pc = "notify"
    /\ Len(delivered) = 1
    /\ delivered[1].event = 10

IsPrefix(s, t) == Len(s) <= Len(t) /\ SubSeq(t, 1, Len(s)) = s

\* the observers notified by the running notify_all_observers, in order
Notified == [i \in 1..Len(delivered) |-> delivered[i].observer]

\* C10: notify_all_observers invokes notify once per registration, in
\* registration order, on the background thread, so an observer registered k
\* times is notified k times per event; registrations are only ever appended.
C10_OncePerRegistration ==
    [][ /\ IsPrefix(observers, observers')
        /\ Len(observers') <= Len(observers) + 1
        /\ (pc = "notify" /\ idx <= Len(observers)) =>
             Notified = SubSeq(observers, 1, idx - 1)
        /\ (pc = "notify" /\ pc' = "loop") => Notified = observers
        /\ Len(delivered') > Len(delivered) =>
             /\ pc = "notify"
             /\ delivered' = Append(delivered,
                    [observer |-> observers[idx], event |-> response_type[1]])
      ]_vars

\* the observer registered twice has been notified twice of one event
C10_Witness ==
    /\ observers = <<"o1", "o1">>
    /\ pc = "notify"
    /\ idx = 3
    /\ Len(delivered) = 2
    /\ delivered[1].observer = "o1"
    /\ delivered[2].observer = "o1"

-----------------------------------------------------------------------------
(* Properties of the outbound commands, checked under SpecCmd *)

\* the call just made passes an argument outside the range its command
\* accepts: dx, dy in [-32768, 32767], theta in [-2 pi, 2 pi], milliseconds in
\* [0, 65535], is_enabled a boolean; a string is in no range
OutsideContract(call) ==
    CASE call.op = "translate_robot" ->
           \E i \in 1..2 : \/ call.args[i].ty = "str"
                           \/ call.args[i].v < -32768
                           \/ call.args[i].v > 32767
      [] call.op = "rotate_robot" ->
           \/ call.args[1].ty = "str"
           \/ call.args[1].ty = "float" /\ call.args[1].v < -62831
           \/ call.args[1].ty = "float" /\ call.args[1].v > 62831
           \/ call.args[1].ty # "float" /\ call.args[1].v < -6
           \/ call.args[1].ty # "float" /\ call.args[1].v > 6
      [] call.op = "flash_green_led" ->
           \/ call.args[1].ty = "str"
           \/ call.args[1].v < 0
           \/ call.args[1].v > 65535
      [] call.op \in {"enable_red_led", "enable_sampling"} ->
           call.args[1].ty # "bool"
      [] OTHER -> FALSE

\* C2: a command called with an argument outside its range fails with a
\* validation error and writes no byte to the serial port.
C2_InvalidArgumentWritesNothing ==
    [][ (ncalls' # ncalls /\ OutsideContract(lastCall')) =>
            /\ lastCall'.res = "AssertionError"
            /\ written' = written
      ]_vars

\* a duration one above the range was refused after a frame had been written
C2_Witness ==
    /\ lastCall.op = "flash_green_led"
    /\ lastCall.args = <<[ty |-> "int", v |-> 65536]>>
    /\ lastCall.res = "AssertionError"
    /\ Len(written) = 8
    /\ ncalls = 2

\* an int (or bool, its subclass) within the signed 16-bit range
SignedShort(a) == a.ty \in {"int", "bool"} /\ a.v \in -32768..32767

\* the eight bytes of a frame, low byte of each field first
FrameOf(f1, f2, f3, f4) ==
    <<f1 % 256, f1 \div 256, f2 % 256, f2 \div 256,
      f3 % 256, f3 \div 256, f4 % 256, f4 \div 256>>

\* C3: on an open port translate_robot(dx, dy) succeeds exactly when dx and
\* dy are integers in [-32768, 32767]; it then writes one frame with opcode
\* TRANSLATE, param1 = dx + 32768 and param2 = dy + 32768, both in
\* [0, 65535]: translate(32767, -32768) writes 65535 and 0, translate(32768, 0)
\* and translate(-32769, 0) fail.
C3_TranslateRange ==
    [][ (ncalls' # ncalls /\ lastCall'.op = "translate_robot" /\ port_open) =>
          LET dx == lastCall'.args[1]
              dy == lastCall'.args[2]
              p1 == dx.v + 32768
              p2 == dy.v + 32768
          IN  /\ lastCall'.res = "ok" <=> (SignedShort(dx) /\ SignedShort(dy))
              /\ lastCall'.res # "ok" => written' = written
              /\ lastCall'.res = "ok" =>
                   /\ p1 \in 0..65535 /\ p2 \in 0..65535
                   /\ written' = written \o
                        FrameOf(0, p1, p2, (4 * 65536 - p1 - p2) % 65536)
              /\ (dx.ty = "int" /\ dx.v = 32767 /\ dy.ty = "int"
                    /\ dy.v = -32768) =>
                   written' = written \o <<0, 0, 255, 255, 0, 0, 1, 0>>
              /\ (dx.ty = "int" /\ dx.v \in {32768, -32769}) =>
                   lastCall'.res = "AssertionError"
      ]_vars

\* translate_robot(32767, -32768) has written its frame
C3_Witness ==
    /\ lastCall.op = "translate_robot"
    /\ lastCall.args = <<[ty |-> "int", v |-> 32767],
                         [ty |-> "int", v |-> -32768]>>
    /\ lastCall.res = "ok"
    /\ written = <<0, 0, 255, 255, 0, 0, 1, 0>>

\* the opcode each command sends
OpcodeOf(op) ==
    CASE op = "translate_robot" -> 0
      [] op = "rotate_robot" -> 1
      [] op = "flash_green_led" -> 2
      [] op = "enable_red_led" -> 3
      [] op = "enable_sampling" -> 4
      [] op = "decode_manchester" -> 5
      [] op = "stop_robot" -> 6
      [] op = "reset_robot" -> 7

\* the k-th 16-bit field of the last frame written, low byte first
LastField(w, k) == w[Len(w) - 8 + 2 * k - 1] + 256 * w[Len(w) - 8 + 2 * k]

\* C4: every successful command call writes exactly one frame of four fields
\* (opcode, param1, param2, checksum), each in [0, 65535], with checksum =
\* (65536 - opcode - param1 - param2) mod 65536, so that the four fields sum
\* to 0 mod 65536; a failed call writes nothing.
C4_FrameChecksum ==
    [][ /\ (ncalls' # ncalls /\ lastCall'.res = "ok") =>
             /\ Len(written') = Len(written) + 8
             /\ SubSeq(written', 1, Len(written)) = written
             /\ \A i \in 1..Len(written') : written'[i] \in 0..255
             /\ LET opcode == LastField(written', 1)
                    param1 == LastField(written', 2)
                    param2 == LastField(written', 3)
                    checksum == LastField(written', 4)
                IN  /\ opcode = OpcodeOf(lastCall'.op)
                    /\ lastCall'.op # "translate_robot" => param2 = 0
                    /\ lastCall'.op \in {"stop_robot", "reset_robot",
                                         "decode_manchester"} => param1 = 0
                    /\ checksum =
                         (4 * 65536 - opcode - param1 - param2) % 65536
                    /\ (opcode + param1 + param2 + checksum) % 65536 = 0
        /\ (ncalls' # ncalls /\ lastCall'.res # "ok") => written' = written
        /\ ncalls' = ncalls => written' = written
      ]_vars

\* two commands have written two frames, the last with two parameters
C4_Witness ==
    /\ ncalls = 2
    /\ Len(written) = 16
    /\ lastCall.op = "translate_robot"
    /\ lastCall.res = "ok"
    /\ LastField(written, 2) = 65535
    /\ LastField(written, 3) = 32768

-----------------------------------------------------------------------------
(* Properties of close() *)

\* C5: after close() has returned, every outbound command call fails and
\* writes no byte to the port, and the background thread is not running.
C5_NoCommandAfterClose ==
    [][ closePc = "returned" =>
          /\ pc' \in {"finished", "crashed"}
          /\ ncalls' # ncalls =>
               /\ lastCall'.res # "ok"
               /\ written' = written
      ]_vars

\* C6: once close() is called from a caller thread the termination flag is
\* set and stays set, close() eventually returns, and it returns only when
\* the background thread has ended; unless an observer callback has raised,
\* the thread has then left its loop and closed the port.  The port is closed
\* only after the loop has been left, never while the loop can still read.
C6_CloseStopsThread ==
    /\ [](closePc # "idle" => ~is_running)
    /\ (closePc = "joining") ~> (closePc = "returned")
    /\ [](closePc = "returned" => pc \in {"finished", "crashed"})
    /\ [](closePc = "returned" /\ pc # "crashed" => ~port_open)
    /\ [](~port_open => pc = "finished")

\* close() has returned after the loop handled a frame, notified an observer
\* and closed the port
C6_Witness ==
    /\ closePc = "returned"
    /\ pc = "finished"
    /\ ~port_open
    /\ ~is_running
    /\ lastRead = "SIGNAL_DATA"
    /\ Len(observers) >= 1

-----------------------------------------------------------------------------
(* Properties of a failing observer, checked under Spec *)

\* C11: when notify raises inside notify_all_observers, the exception ends
\* the loop: the observers registered before the raising one have been
\* notified, the raising one is the last to be called, and no observer
\* registered after it is notified of that event, then or later.
C11_RaiseStopsDelivery ==
    [][ /\ (pc = "notify" /\ pc' = "crashed") =>
             /\ Notified = SubSeq(observers, 1, idx - 1)
             /\ delivered' = Append(delivered,
                    [observer |-> observers[idx], event |-> response_type[1]])
             /\ idx' = idx
        /\ pc = "crashed" =>
             /\ pc' = "crashed"
             /\ delivered' = delivered
             /\ Len(delivered) = idx
      ]_vars

\* the first of two observers raised: the second was never called
C11_Witness ==
    /\ pc = "crashed"
    /\ observers = <<"o1", "o2">>
    /\ idx = 1
    /\ Len(delivered) = 1
    /\ delivered[1].observer = "o1"

-----------------------------------------------------------------------------
(* What a caller thread can read, checked under Spec *)

\* C19: in every state a caller thread can read, antenna_information is
\* None or an object whose three fields were all decoded from one
\* SIGNAL_DATA frame: never a fresh object whose fields are not yet set.
C19_NoTornRead ==
    \/ antenna_information = None
    \/ /\ antenna_information[1].painting_number # None
       /\ antenna_information[1].zoom # None
       /\ antenna_information[1].orientation # None
       /\ \E f \in InboundFrames :
             /\ f[1] = SIGNAL_DATA
             /\ antenna_information[1] = Decoded(f[2])

\* C20: once the background thread has terminated, by the end of run() or
\* by an exception that left it, the serial port is closed.
C20_EndedThreadClosedPort == ThreadEnded => ~port_open

-----------------------------------------------------------------------------
(* Properties of the decoded antenna telemetry, checked under SpecDecode *)

\* the AntennaInformation of parameter p is complete: SIGNAL_DATA is being
\* announced to the observers
AntennaStored ==
    /\ pc = "notify"
    /\ response_type = Some(SIGNAL_DATA)
    /\ antenna_information # None

\* C15 as stated: for every parameter p of a valid SIGNAL_DATA frame the
\* stored painting_number is p & 0x70 and the stored zoom is (p & 0x04) + 2.
C15_ZoomPlusTwo ==
    AntennaStored =>
        LET p == param[1]
            a == antenna_information[1]
        IN  /\ a.painting_number = Some(((p \div 16) % 8) * 16)
            /\ a.zoom = Some(((p \div 4) % 2) * 4 + 2)

\* C15 amended: for every parameter p of a valid SIGNAL_DATA frame the
\* stored painting_number is p & 0x70 and the stored zoom is p & 0x04, that
\* is 0 or 4: the 2 is added to the mask and not to the result.
C15_ZoomMaskPlusTwo ==
    AntennaStored =>
        LET p == param[1]
            a == antenna_information[1]
        IN  /\ a.painting_number = Some(((p \div 16) % 8) * 16)
            /\ a.zoom = Some(((p \div 4) % 2) * 4)

\* parameter 0x0076 decoded: figure bits 0x70, zoom 4
C15_Witness ==
    /\ AntennaStored
    /\ param = Some(118)
    /\ antenna_information[1].painting_number = Some(112)
    /\ antenna_information[1].zoom = Some(4)

-----------------------------------------------------------------------------
(* Properties of the command dispatcher, checked under SpecDispatch *)

\* the call of get_relevant_command made by this step
ThisQuery == queries'[Len(queries')]

Queried == Len(queries') = Len(queries) + 1

\* C12: for every step of the static table, get_relevant_command returns
\* the instance that __init__ built for the step: the same object at every
\* call for the step, and the table is never modified.
C12_TableInstanceReused ==
    [][ /\ equivalencies' = equivalencies
        /\ equivalencies = BuiltEquivalencies
        /\ (Queried /\ ThisQuery.step \in TableSteps) =>
             /\ ThisQuery.command = BuiltEquivalencies[ThisQuery.step]
             /\ ThisQuery.command.serial <= Len(EquivalenciesLiteral)
             /\ \A i \in DOMAIN queries :
                   queries[i].step = ThisQuery.step =>
                       queries[i].command = ThisQuery.command
      ]_vars

\* STANBY was asked for twice in a row: the same BuildGameMapCommand
C12_Witness ==
    /\ Len(queries) = 2
    /\ queries[1].step = "STANBY"
    /\ queries[2].step = "STANBY"
    /\ queries[1].command = CommandObject("BuildGameMapCommand", 1)
    /\ queries[2].command = queries[1].command

\* C13: after every get_relevant_command(step) the translation mode is
\* trust-material exactly when the step is in the translation material
\* servo list, and otherwise basic; independently the rotation mode is
\* trust-material exactly when the step is in the rotation material servo
\* list; both modes were already set when the command was returned by the
\* table or asked of a factory.
C13_ModesFollowStep ==
    [][ Queried =>
          LET step == ThisQuery.step
          IN  /\ translation_strategy' \in StrategyTypes
              /\ rotation_strategy' \in StrategyTypes
              /\ translation_strategy' = TRUST_MATERIAL_SERVOING <=>
                    step \in {"DRAWING", "MARKING_ANTENNA_POSITION",
                              "TRAVEL_TO_DRAWING_ZONE",
                              "TRAVEL_TO_PAINTINGS_AREA", "SEARCH_FOR_ANTENNA",
                              "EXITING_DRAWING_ZONE"}
              /\ rotation_strategy' = TRUST_MATERIAL_SERVOING <=>
                    step \in {"ROTATE_TO_FACE_PAINTING",
                              "ROTATE_BACK_AFTER_CAPTURE"}
              /\ ThisQuery.seen = <<translation_strategy', rotation_strategy'>>
      ]_vars

\* after TRAVEL_TO_DRAWING_ZONE, ROTATE_TO_STANDARD_HEADING was asked for:
\* the translation mode went back to basic, the rotation mode stayed basic,
\* and the rotation factory saw both
C13_Witness ==
    /\ Len(queries) = 2
    /\ queries[1].step = "TRAVEL_TO_DRAWING_ZONE"
    /\ queries[1].seen = <<TRUST_MATERIAL_SERVOING, BASIC_WHEEL_SERVOING>>
    /\ queries[2].step = "ROTATE_TO_STANDARD_HEADING"
    /\ queries[2].factory = "get_rotation_command"
    /\ translation_strategy = BASIC_WHEEL_SERVOING
    /\ rotation_strategy = BASIC_WHEEL_SERVOING

\* C14: get_relevant_command is total and takes exactly one path: a step
\* of the table invokes no factory, a step outside the table and in the
\* uses-rotation list invokes get_rotation_command only, every other step
\* invokes get_translation_command only; a command is returned in each case.
C14_OnePathPerStep ==
    [][ /\ Len(queries) < MaxQueries =>
              \A current_step \in Steps :
                  ENABLED get_relevant_command(current_step)
        /\ Queried =>
              LET step == ThisQuery.step
              IN  /\ ThisQuery.factory =
                        IF step \in DOMAIN BuiltEquivalencies THEN "none"
                        ELSE IF step \in {"ROTATE_BACK_AFTER_CAPTURE",
                                          "ROTATE_TO_FACE_PAINTING",
                                          "ROTATE_TO_STANDARD_HEADING"}
                        THEN "get_rotation_command"
                        ELSE "get_translation_command"
                  /\ ThisQuery.command \in
                        [cls : STRING, serial : Nat \ {0}]
                  /\ ThisQuery.factory # "none" =>
                        ThisQuery.command.cls = ThisQuery.factory
                  /\ queries' = Append(queries, ThisQuery)
      ]_vars

\* one call took the rotation factory, the next one the translation factory
\* for a step that no list names
C14_Witness ==
    /\ Len(queries) = 2
    /\ queries[1].step = "ROTATE_TO_STANDARD_HEADING"
    /\ queries[1].factory = "get_rotation_command"
    /\ queries[2].step = UNLISTED_STEP
    /\ queries[2].factory = "get_translation_command"

-----------------------------------------------------------------------------
(* Properties of the command handler's queues, checked under SpecHandler *)

\* the packets that the fetch_command calls returned, in order
FetchedPackets(results) ==
    LET got == SelectSeq(results, LAMBDA r : r # None)
    IN  [i \in DOMAIN got |-> got[i][1]]

\* C18: the queue accesses never block and never raise. put_command on a
\* full outbound queue drops the packet and leaves the queue as it was,
\* otherwise it appends the packet; fetch_command on an empty inbound queue
\* returns None and leaves the queue as it was, otherwise it removes and
\* returns the oldest packet, so packets are fetched in the order received.
C18_QueuesNeverBlock ==
    [][ /\ Len(puts) < MaxPackets =>
              \A packet \in Packets : ENABLED put_command(packet)
        /\ Len(fetched) < MaxPackets => ENABLED fetch_command
        /\ puts' # puts =>
              LET packet == puts'[Len(puts')]
              IN  /\ puts' = Append(puts, packet)
                  /\ consumed' = IF Len(consumed) = QueueSize
                                 THEN consumed
                                 ELSE Append(consumed, packet)
                  /\ produced' = produced
        /\ fetched' # fetched =>
              LET command == fetched'[Len(fetched')]
              IN  /\ fetched' = Append(fetched, command)
                  /\ IF produced = << >>
                     THEN command = None /\ produced' = produced
                     ELSE /\ command = Some(Head(produced))
                          /\ produced' = Tail(produced)
                  /\ consumed' = consumed
        /\ IsPrefix(FetchedPackets(fetched'), handed')
      ]_vars

\* a third put on the full outbound queue was dropped; two packets were
\* fetched in the order they were received and a third fetch found nothing
C18_Witness ==
    /\ puts = <<"p1", "p2", "p1">>
    /\ consumed = <<"p1", "p2">>
    /\ handed = <<"p2", "p1">>
    /\ fetched = <<Some("p2"), Some("p1"), None>>
    /\ produced = << >>

-----------------------------------------------------------------------------
(* Properties of the frame validation, checked under SpecChecksum *)

\* C16: validation accepts every frame whose three 16-bit fields sum to 0
\* modulo 65536, and rejects the frame obtained from an accepted frame by
\* flipping any single one of its 48 bits.
C16_SingleBitFlipRejected ==
    /\ flipped = 0 =>
          LET f == response_format(wire)[1]
          IN  /\ (f[1] + f[2] + f[3]) % 65536 = 0
              /\ accepted \in {None, Some(TRUE)}
    /\ flipped # 0 => accepted \in {None, Some(FALSE)}

\* the top bit of the first field of an accepted frame was flipped and the
\* frame was rejected
C16_Witness ==
    /\ flipped = 16
    /\ accepted = Some(FALSE)
    /\ wire = <<10, 128, 118, 0, 128, 255>>

-----------------------------------------------------------------------------
(* Properties of the construction, checked under SpecConstruct *)

\* __init__ has returned or raised
InitEnded == init_pc \in {"done", "IndexError", "EnvironmentError"}

NoneOpens == \A i \in DOMAIN ports : ~ports[i]

\* C17: when no candidate port opens, constructing the driver fails with
\* the error of a device not found, and the failed construction leaves no
\* port open and has started no thread.
C17_NoDeviceNoDriver ==
    /\ (InitEnded /\ NoneOpens) =>
          /\ init_pc \in {"IndexError", "EnvironmentError"}
          /\ init_pc = "IndexError" <=> Supported(platform)
    /\ init_pc \in {"IndexError", "EnvironmentError"} =>
          /\ NoneOpens \/ ~Supported(platform)
          /\ ~port_open
          /\ ~s_open
          /\ pc = "unstarted"
          /\ ~is_running

\* two candidates were probed on linux, neither opened: IndexError
C17_Witness ==
    /\ init_pc = "IndexError"
    /\ platform = "linux"
    /\ ports = <<FALSE, FALSE>>
    /\ port_i = 3
    /\ result = << >>

-----------------------------------------------------------------------------
(* The decoded orientation, checked under SpecDecode *)

\* C21: for every parameter p of a valid SIGNAL_DATA frame the decoded
\* orientation (360 - (p & 0x0C) * 90) mod 360 is 0: it lies in [0, 360) and
\* is the same for all four settings of the two orientation bits.
C21_OrientationAlwaysZero ==
    AntennaStored =>
        LET p == param[1]
            bits == (p \div 4) % 4
            a == antenna_information[1]
        IN  /\ a.orientation # None
            /\ a.orientation[1] \in 0..359
            /\ a.orientation[1] = (360 - (bits * 4) * 90) % 360
            /\ a.orientation = Some(0)

\* parameter 0x000C, both orientation bits set: 360 - 1080 is decoded as 0
C21_Witness ==
    /\ AntennaStored
    /\ param = Some(12)
    /\ antenna_information[1].orientation = Some(0)

====
